---- MODULE Spec2Model ----
(***************************************************************************)
(* Model of the data-paradox game server (src/server.ts): the SQLite       *)
(* tables teams, rounds, submissions and settings, and one action per HTTP *)
(* handler.  better-sqlite3 is synchronous and every handler body is       *)
(* straight-line code without an await, so a handler runs to completion on *)
(* the Node event loop: each handler is one atomic action.  Requests that  *)
(* have arrived but whose handler has not run yet are kept in `inflight`.  *)
(* `clients` and `inbox` are the WebSocket channels of broadcast, and       *)
(* `browser` is the currentRound of one app of src/unnamed/part_000.       *)
(*                                                                         *)
(* REAL columns and JavaScript numbers are modelled as exact rationals     *)
(* <<n, d>> in lowest terms with d > 0 (floating-point rounding is not     *)
(* modelled).                                                              *)
(***************************************************************************)
EXTENDS Integers, Sequences, FiniteSets, Bags, TLC

VARIABLES teams, rounds, submissions, sqlite_sequence, settings, inflight, events, last,
          settlements, clients, inbox, browser

vars == <<teams, rounds, submissions, sqlite_sequence, settings, inflight, events, last,
          settlements, clients, inbox, browser>>

----------------------------------------------------------------------------
(* Bounds of the model *)

MaxRounds == 2
MaxSettlements == 2
MaxInFlight == 2
MaxSubs == 2
MaxInbox == 2

(* Inputs the requests are drawn from *)
Names == {"a", "b"}
Themes == {"x"}
TeamIds == 1 .. Cardinality(Names)
RoundIds == 1 .. MaxRounds
Preds == {100}
Bids == {0 - 1000, 0, 2000, 3000}
Actuals == {100, 200}
SettingKeys == {"game_title"}
SettingValues == {"DATA PARADOX", "T2"}
Channels == {"c1", "c2"}

(* Program constants *)
InitialBalance == 2000

NULL == <<>>

----------------------------------------------------------------------------
(* Exact rational arithmetic for REAL / JS number values *)

Abs(x) == IF x < 0 THEN 0 - x ELSE x

RECURSIVE Gcd(_, _)
Gcd(a, b) == IF b = 0 THEN a ELSE Gcd(b, a % b)

Norm(n, d) ==
    LET s == IF d < 0 THEN 0 - 1 ELSE 1
        g == Gcd(Abs(n), Abs(d))
    IN  IF n = 0 THEN <<0, 1>> ELSE <<(s * n) \div g, (s * d) \div g>>

R(i) == <<i, 1>>
RAdd(x, y) == Norm(x[1] * y[2] + y[1] * x[2], x[2] * y[2])
RSub(x, y) == Norm(x[1] * y[2] - y[1] * x[2], x[2] * y[2])
RMul(x, y) == Norm(x[1] * y[1], x[2] * y[2])
RDiv(x, y) == Norm(x[1] * y[2], x[2] * y[1])
RLt(x, y) == x[1] * y[2] < y[1] * x[2]
RLe(x, y) == x[1] * y[2] <= y[1] * x[2]

\* A JSON null in a number field of a request body (roundId, actualValue),
\* and the SQL NULL it is bound as in round_id.  Row ids are positive, and
\* no request of this model uses the number -1.
JsonNull == 0 - 1

\* The value bound to a REAL column: a number, or NULL for null
Real(a) == IF a = JsonNull THEN NULL ELSE R(a)

----------------------------------------------------------------------------
(* ScoringEngine: the arithmetic inside the reveal loop *)

\* error / actualValue * 100, with the actualValue === 0 special case.
\* For actualValue null, null === 0 is false and Math.abs(p - null) / null
\* is Infinity for p # 0 (p = 0 gives NaN, which is left out: the requests
\* with a null actualValue meet nonzero predictions only).
ErrorPercent(p, a) ==
    IF a = JsonNull THEN <<1, 0>>
    ELSE IF a = 0 THEN (IF p = 0 THEN R(0) ELSE R(100))
    ELSE RMul(RDiv(R(Abs(p - a)), R(a)), R(100))

\* Mutant: the tiers compare with < instead of <=
MultiplierStrict(ep) ==
    IF RLt(ep, R(2)) THEN R(3)
    ELSE IF RLt(ep, R(5)) THEN R(2)
    ELSE IF RLt(ep, R(10)) THEN <<3, 2>>
    ELSE R(1)

Multiplier(ep) ==
    IF RLe(ep, R(2)) THEN R(3)
    ELSE IF RLe(ep, R(5)) THEN R(2)
    ELSE IF RLe(ep, R(10)) THEN <<3, 2>>
    ELSE R(1)

\* bid and the result are rationals; p and a are the integer inputs
FinalScore(p, a, bid) ==
    LET ep == ErrorPercent(p, a)
        baseScore == RMul(bid, RDiv(R(1), RAdd(R(1), ep)))
    IN  IF RLt(R(25), ep) THEN R(0) ELSE RMul(baseScore, Multiplier(ep))

----------------------------------------------------------------------------
(* The tables.  Ids are AUTOINCREMENT and rows are only ever deleted all   *)
(* together (reset, which also clears sqlite_sequence), so a table is a    *)
(* sequence of rows and a row's id is its index.                           *)

\* sqlite_sequence: the greatest id that AUTOINCREMENT has issued per table;
\* a table without a row in sqlite_sequence counts from 0
NoSequence == [t \in {"teams", "rounds", "submissions"} |-> 0]

\* Mutant: the id is read before the INSERT
NextIdStale(table) == sqlite_sequence[table]

\* lastInsertRowid of the next INSERT into the table
NextId(table) == sqlite_sequence[table] + 1

\* sqlite_sequence after an INSERT into the table
Issued(table) == [sqlite_sequence EXCEPT ![table] = @ + 1]

TeamRow(name) == [name |-> name, balance |-> R(InitialBalance)]

\* Mutant: the status column defaults to 'closed'
RoundRowClosed(theme) == [theme |-> theme, actual_value |-> NULL, status |-> "closed"]

RoundRow(theme) == [theme |-> theme, actual_value |-> NULL, status |-> "open"]

SubmissionRow(teamId, roundId, p, bid) ==
    [team_id |-> teamId, round_id |-> roundId, predicted_value |-> p,
     bid_amount |-> R(bid), score |-> R(0), error_percent |-> NULL]

TeamExists(id) == id \in DOMAIN teams
RoundExists(id) == id \in DOMAIN rounds

\* SELECT * FROM teams WHERE name = ?
TeamByName(name) == {i \in DOMAIN teams : teams[i].name = name}

\* Mutant: the two bound parameters in the wrong order
ExistingSwapped(teamId, roundId) ==
    {i \in DOMAIN submissions :
        submissions[i].team_id = roundId /\ submissions[i].round_id = teamId}

\* Mutant: the duplicate check finds nothing
ExistingNone(teamId, roundId) == {}

\* SELECT id FROM submissions WHERE team_id = ? AND round_id = ?
\* (round_id = NULL is true for no row)
Existing(teamId, roundId) ==
    {i \in DOMAIN submissions :
        /\ submissions[i].team_id = teamId
        /\ roundId # JsonNull
        /\ submissions[i].round_id = roundId}

\* SELECT * FROM submissions WHERE round_id = ?
SubsOfRound(roundId) == {i \in DOMAIN submissions : submissions[i].round_id = roundId}

\* SELECT * FROM rounds ORDER BY id DESC LIMIT 1
CurrentRound ==
    IF rounds = <<>> THEN NULL
    ELSE [id |-> Len(rounds), theme |-> rounds[Len(rounds)].theme,
          actual_value |-> rounds[Len(rounds)].actual_value,
          status |-> rounds[Len(rounds)].status]

----------------------------------------------------------------------------
(* Responses and broadcast events *)

Response(op, status, error, body) ==
    [op |-> op, status |-> status, error |-> error, body |-> body]

\* The Set<WebSocket> clients and the readyState of its members: a channel is
\* "absent" (not in the set), "open" (in the set, readyState OPEN), "broken"
\* (in the set, readyState still OPEN, the transport already dead) or
\* "closing" (readyState past OPEN, its close handler has not run yet).
NoClients == [c \in Channels |-> "absent"]

\* The browser app on channel c1 before it is mounted.  adminPassword is the
\* state of the latest render, handlerPassword the adminPassword of the
\* render whose functions socket.onmessage calls, pulls the round ids of the
\* GET /api/admin/submissions requests the app has sent.
NoBrowser ==
    [mounted |-> FALSE, currentRound |-> NULL, fetching |-> 0, responses |-> {},
     isAdminAuthenticated |-> FALSE, adminPassword |-> "", handlerPassword |-> "",
     pulls |-> {}]

\* Mutant: the message is sent to the first client of the set only
BroadcastFirst(evs) ==
    /\ events' = evs
    /\ \A c \in Channels : clients[c] = "open" => Len(inbox[c]) + Len(evs) <= MaxInbox
    /\ inbox' = [c \in Channels |->
                    IF clients[c] = "open" /\ \A d \in Channels : clients[d] = "open" => c = d
                    THEN inbox[c] \o evs ELSE inbox[c]]

\* Mutant: the message is kept for the channels that are not connected
BroadcastQueued(evs) ==
    /\ events' = evs
    /\ \A c \in Channels : Len(inbox[c]) + Len(evs) <= MaxInbox + 1
    /\ inbox' = [c \in Channels |-> inbox[c] \o evs]

\* Mutant: a send that fails ends the forEach
BroadcastAborts(evs) ==
    /\ events' = evs
    /\ \A c \in Channels : clients[c] = "open" => Len(inbox[c]) + Len(evs) <= MaxInbox
    /\ inbox' = [c \in Channels |->
                    IF clients[c] = "open" /\ \A d \in Channels : clients[d] # "broken"
                    THEN inbox[c] \o evs ELSE inbox[c]]

\* Mutant: the message overtakes the messages the peer has not handled yet
BroadcastAhead(evs) ==
    /\ events' = evs
    /\ \A c \in Channels : clients[c] = "open" => Len(inbox[c]) + Len(evs) <= MaxInbox
    /\ inbox' = [c \in Channels |->
                    IF clients[c] = "open" THEN evs \o inbox[c] ELSE inbox[c]]

\* broadcast(data): client.send(message) for every client of the set whose
\* readyState is OPEN.  A message sent on an open channel is in its inbox
\* until the peer handles it; a send on a broken channel fails inside the
\* socket and reaches nobody.  inbox is capped at MaxInbox.
Broadcast(evs) ==
    /\ events' = evs
    /\ \A c \in Channels : clients[c] = "open" => Len(inbox[c]) + Len(evs) <= MaxInbox
    /\ inbox' = [c \in Channels |->
                    IF clients[c] = "open" THEN inbox[c] \o evs ELSE inbox[c]]

\* A handler that does not call broadcast
NoBroadcast ==
    /\ events' = <<>>
    /\ UNCHANGED inbox

\* adminAuth: the x-admin-password header equals the configured password
\* Mutant: the middleware lets every request pass
AdminAuthOpen(req) == TRUE

AdminAuth(req) == req.auth

Unauthorized(op, req) ==
    /\ ~AdminAuth(req)
    /\ last' = Response(op, 401, "Unauthorized", NULL)
    /\ NoBroadcast
    /\ UNCHANGED <<teams, rounds, submissions, sqlite_sequence, settings, inflight,
                   settlements, clients, browser>>

Init ==
    /\ teams = <<>>
    /\ rounds = <<>>
    /\ submissions = <<>>
    /\ sqlite_sequence = NoSequence
    /\ settings = [k \in SettingKeys |-> "DATA PARADOX"]
    /\ inflight = EmptyBag
    /\ events = <<>>
    /\ last = Response("listen", 200, "", NULL)
    /\ settlements = 0
    /\ clients = NoClients
    /\ inbox = [c \in Channels |-> <<>>]
    /\ browser = NoBrowser

----------------------------------------------------------------------------
(* Handlers without a state change *)

\* POST /api/admin/login
Login(ok) ==
    /\ last' = Response("login", IF ok THEN 200 ELSE 401,
                        IF ok THEN "" ELSE "Incorrect password", NULL)
    /\ NoBroadcast
    /\ UNCHANGED <<teams, rounds, submissions, sqlite_sequence, settings, inflight,
                   settlements, clients, browser>>

\* GET /api/settings
GetSettings ==
    /\ last' = Response("getSettings", 200, "", settings)
    /\ NoBroadcast
    /\ UNCHANGED <<teams, rounds, submissions, sqlite_sequence, settings, inflight,
                   settlements, clients, browser>>

\* Insert row r into the sequence s, which is sorted by balance descending
RECURSIVE InsertByBalance(_, _)
InsertByBalance(s, r) ==
    IF s = <<>> THEN <<r>>
    ELSE IF RLt(s[1].balance, r.balance) THEN <<r>> \o s
    ELSE <<s[1]>> \o InsertByBalance(Tail(s), r)

\* SELECT * FROM teams ORDER BY balance DESC
RECURSIVE TeamsByBalance(_)
TeamsByBalance(n) ==
    IF n = 0 THEN <<>>
    ELSE InsertByBalance(TeamsByBalance(n - 1),
                         [id |-> n, name |-> teams[n].name, balance |-> teams[n].balance])

\* GET /api/teams
GetTeams ==
    /\ last' = Response("getTeams", 200, "", TeamsByBalance(Len(teams)))
    /\ NoBroadcast
    /\ UNCHANGED <<teams, rounds, submissions, sqlite_sequence, settings, inflight,
                   settlements, clients, browser>>

\* GET /api/rounds/current
GetCurrentRound ==
    /\ last' = Response("getCurrentRound", 200, "", CurrentRound)
    /\ NoBroadcast
    /\ UNCHANGED <<teams, rounds, submissions, sqlite_sequence, settings, inflight,
                   settlements, clients, browser>>

\* SELECT s.*, t.name FROM submissions s JOIN teams t ... WHERE s.round_id = ?
SubmissionsOf(roundId) ==
    {[id |-> i, row |-> submissions[i], team_name |-> teams[submissions[i].team_id].name] :
        i \in {j \in SubsOfRound(roundId) : TeamExists(submissions[j].team_id)}}

\* GET /api/admin/submissions/:roundId
GetSubmissions(req) ==
    \/ Unauthorized("getSubmissions", req)
    \/ /\ AdminAuth(req)
       /\ last' = Response("getSubmissions", 200, "", SubmissionsOf(req.roundId))
       /\ NoBroadcast
       /\ UNCHANGED <<teams, rounds, submissions, sqlite_sequence, settings, inflight,
                      settlements, clients, browser>>

----------------------------------------------------------------------------
(* Handlers that write *)

\* POST /api/admin/settings
UpdateSetting(req) ==
    \/ Unauthorized("updateSetting", req)
    \/ /\ AdminAuth(req)
       /\ settings' = [settings EXCEPT ![req.key] = req.value]
       /\ Broadcast(<<[type |-> "SETTINGS_UPDATED", key |-> req.key, value |-> req.value]>>)
       /\ last' = Response("updateSetting", 200, "", NULL)
       /\ UNCHANGED <<teams, rounds, submissions, sqlite_sequence, inflight, settlements,
                      clients, browser>>

\* Mutant: INSERT OR REPLACE, which gives an existing name a fresh row
JoinTeamsReplace(name) ==
    IF TeamByName(name) = {} THEN Append(teams, TeamRow(name))
    ELSE [i \in DOMAIN teams |-> IF teams[i].name = name THEN TeamRow(name) ELSE teams[i]]

\* INSERT INTO teams (name): fails on the UNIQUE name, and then nothing is written
\* Mutant: the name column is not UNIQUE
JoinTeamsDuplicate(name) == Append(teams, TeamRow(name))

JoinTeams(name) ==
    IF TeamByName(name) = {} THEN Append(teams, TeamRow(name)) ELSE teams

\* POST /api/teams/join
Join(name) ==
    /\ teams' = JoinTeams(name)
    /\ last' = IF TeamByName(name) = {}
               THEN Response("join", 200, "",
                             [id |-> NextId("teams"), name |-> name,
                              balance |-> R(InitialBalance)])
               ELSE LET id == CHOOSE i \in TeamByName(name) : TRUE
                    IN  Response("join", 200, "",
                                 [id |-> id, name |-> name, balance |-> teams[id].balance])
    /\ sqlite_sequence' = IF TeamByName(name) = {} THEN Issued("teams") ELSE sqlite_sequence
    /\ NoBroadcast
    /\ UNCHANGED <<rounds, submissions, settings, inflight, settlements, clients, browser>>

\* Mutant: the UPDATE before the INSERT is missing
ForceRevealedNone == rounds

\* Mutant: the UPDATE also writes an actual_value
ForceRevealedZero ==
    [i \in DOMAIN rounds |->
        IF rounds[i].status # "revealed"
        THEN [rounds[i] EXCEPT !.status = "revealed", !.actual_value = R(0)]
        ELSE rounds[i]]

\* UPDATE rounds SET status = 'revealed' WHERE status != 'revealed'
ForceRevealed == [i \in DOMAIN rounds |-> [rounds[i] EXCEPT !.status = "revealed"]]

\* POST /api/admin/rounds
StartRound(req) ==
    \/ Unauthorized("startRound", req)
    \/ /\ AdminAuth(req)
       /\ Len(rounds) < MaxRounds
       /\ rounds' = Append(ForceRevealed, RoundRow(req.theme))
       /\ sqlite_sequence' = Issued("rounds")
       /\ Broadcast(<<[type |-> "ROUND_STARTED",
                       round |-> [id |-> NextId("rounds"), theme |-> req.theme, status |-> "open"]]>>)
       /\ last' = Response("startRound", 200, "", [id |-> NextId("rounds"), theme |-> req.theme])
       /\ UNCHANGED <<teams, submissions, settings, inflight, settlements, clients, browser>>

\* A POST /api/submissions request has arrived; its handler has not run yet
SubmitArrive(req) ==
    /\ BagCardinality(inflight) < MaxInFlight
    /\ inflight' = inflight (+) SetToBag({req})
    /\ UNCHANGED <<teams, rounds, submissions, sqlite_sequence, settings, events, last,
                   settlements, inbox, clients, browser>>

\* Mutant: only the missing team is rejected
InsufficientBalanceNoCompare(teamId, bid) == ~TeamExists(teamId)

\* !team || team.balance < bidAmount
InsufficientBalance(teamId, bid) ==
    IF ~TeamExists(teamId) THEN TRUE ELSE RLt(teams[teamId].balance, R(bid))

\* The submissions table declares FOREIGN KEY(round_id) REFERENCES rounds(id),
\* and better-sqlite3 opens databases with foreign_keys = ON: the INSERT throws
ForeignKeyFails(teamId, roundId) ==
    \/ ~TeamExists(teamId)
    \/ roundId # JsonNull /\ ~RoundExists(roundId)

\* POST /api/submissions: the handler body
SubmitHandler(req) ==
    /\ \/ /\ InsufficientBalance(req.teamId, req.bidAmount)
          /\ last' = Response("submit", 400, "Insufficient balance", NULL)
          /\ NoBroadcast
          /\ UNCHANGED <<submissions, sqlite_sequence>>
       \/ /\ ~InsufficientBalance(req.teamId, req.bidAmount)
          /\ Existing(req.teamId, req.roundId) # {}
          /\ last' = Response("submit", 400, "Already submitted for this round", NULL)
          /\ NoBroadcast
          /\ UNCHANGED <<submissions, sqlite_sequence>>
       \/ /\ ~InsufficientBalance(req.teamId, req.bidAmount)
          /\ Existing(req.teamId, req.roundId) = {}
          /\ ForeignKeyFails(req.teamId, req.roundId)
          /\ last' = Response("submit", 500, "FOREIGN KEY constraint failed", NULL)
          /\ NoBroadcast
          /\ UNCHANGED <<submissions, sqlite_sequence>>
       \/ /\ ~InsufficientBalance(req.teamId, req.bidAmount)
          /\ Existing(req.teamId, req.roundId) = {}
          /\ ~ForeignKeyFails(req.teamId, req.roundId)
          /\ Len(submissions) < MaxSubs
          /\ submissions' = Append(submissions,
                 SubmissionRow(req.teamId, req.roundId, req.predictedValue, req.bidAmount))
          /\ sqlite_sequence' = Issued("submissions")
          /\ Broadcast(<<[type |-> "SUBMISSION_RECEIVED", teamId |-> req.teamId]>>)
          /\ last' = Response("submit", 200, "", NULL)
    /\ UNCHANGED <<teams, rounds, settings, settlements, clients, browser>>

\* A request whose handler runs as soon as it arrives
Submit(req) ==
    /\ SubmitHandler(req)
    /\ UNCHANGED inflight

\* The handler runs for a request that was in flight
SubmitInFlight(req) ==
    /\ BagIn(req, inflight)
    /\ inflight' = inflight (-) SetToBag({req})
    /\ SubmitHandler(req)

\* Mutant: a repeated reveal reopens the round
RevealRoundToggle(roundId, a) ==
    [i \in DOMAIN rounds |->
        IF i = roundId
        THEN [rounds[i] EXCEPT !.actual_value = R(a),
                               !.status = IF @ = "open" THEN "revealed" ELSE "open"]
        ELSE rounds[i]]

\* UPDATE rounds SET actual_value = ?, status = 'revealed' WHERE id = ?
RevealRound(roundId, a) ==
    [i \in DOMAIN rounds |->
        IF i = roundId THEN [rounds[i] EXCEPT !.actual_value = Real(a), !.status = "revealed"]
        ELSE rounds[i]]

\* UPDATE submissions SET score = ?, error_percent = ? WHERE id = ?, for each row of the round
ScoreSubmissions(roundId, a) ==
    [i \in DOMAIN submissions |->
        IF submissions[i].round_id = roundId
        THEN [submissions[i] EXCEPT
                 !.score = FinalScore(submissions[i].predicted_value, a, submissions[i].bid_amount),
                 !.error_percent = ErrorPercent(submissions[i].predicted_value, a)]
        ELSE submissions[i]]

\* Mutant: the bid is not debited
SettleNoDebit(balance, bid, finalScore) == RAdd(balance, finalScore)

\* balance = balance - ? + ?
Settle(balance, bid, finalScore) == RAdd(RSub(balance, bid), finalScore)

\* The loop over the round's submissions, from row i on: UPDATE teams ... WHERE id = team_id
RECURSIVE SettleFrom(_, _, _, _)
SettleFrom(tms, i, roundId, a) ==
    IF i > Len(submissions) THEN tms
    ELSE LET sub == submissions[i]
         IN  IF sub.round_id = roundId /\ sub.team_id \in DOMAIN tms
             THEN SettleFrom([tms EXCEPT ![sub.team_id].balance =
                                 Settle(@, sub.bid_amount,
                                        FinalScore(sub.predicted_value, a, sub.bid_amount))],
                             i + 1, roundId, a)
             ELSE SettleFrom(tms, i + 1, roundId, a)

\* POST /api/admin/rounds/reveal
Reveal(req) ==
    \/ Unauthorized("reveal", req)
    \/ /\ AdminAuth(req)
       /\ SubsOfRound(req.roundId) # {} => settlements < MaxSettlements
       /\ rounds' = RevealRound(req.roundId, req.actualValue)
       /\ submissions' = ScoreSubmissions(req.roundId, req.actualValue)
       /\ teams' = SettleFrom(teams, 1, req.roundId, req.actualValue)
       /\ settlements' = IF SubsOfRound(req.roundId) # {} THEN settlements + 1 ELSE settlements
       /\ Broadcast(<<[type |-> "ROUND_REVEALED", roundId |-> req.roundId,
                       actualValue |-> req.actualValue]>>)
       /\ last' = Response("reveal", 200, "", NULL)
       /\ UNCHANGED <<sqlite_sequence, settings, inflight, clients, browser>>

\* Mutant: the reset also restores the default settings
ResetSettings(req) ==
    \/ Unauthorized("reset", req)
    \/ /\ AdminAuth(req)
       /\ teams' = <<>>
       /\ rounds' = <<>>
       /\ submissions' = <<>>
       /\ sqlite_sequence' = NoSequence
       /\ settings' = [k \in SettingKeys |-> "DATA PARADOX"]
       /\ settlements' = 0
       /\ Broadcast(<<[type |-> "GAME_RESET"]>>)
       /\ last' = Response("reset", 200, "", NULL)
       /\ UNCHANGED <<inflight, clients, browser>>

\* Mutant: the DELETE FROM sqlite_sequence is missing
ResetKeepsSequence(req) ==
    \/ Unauthorized("reset", req)
    \/ /\ AdminAuth(req)
       /\ teams' = <<>>
       /\ rounds' = <<>>
       /\ submissions' = <<>>
       /\ settlements' = 0
       /\ Broadcast(<<[type |-> "GAME_RESET"]>>)
       /\ last' = Response("reset", 200, "", NULL)
       /\ UNCHANGED <<sqlite_sequence, settings, inflight, clients, browser>>

\* Mutant: the DELETE FROM teams is missing
ResetLeavesTeams(req) ==
    \/ Unauthorized("reset", req)
    \/ /\ AdminAuth(req)
       /\ rounds' = <<>>
       /\ submissions' = <<>>
       /\ sqlite_sequence' = [NoSequence EXCEPT !["teams"] = sqlite_sequence["teams"]]
       /\ Broadcast(<<[type |-> "GAME_RESET"]>>)
       /\ last' = Response("reset", 200, "", NULL)
       /\ UNCHANGED <<teams, settings, inflight, settlements, clients, browser>>

\* POST /api/admin/reset
Reset(req) ==
    \/ Unauthorized("reset", req)
    \/ /\ AdminAuth(req)
       /\ teams' = <<>>
       /\ rounds' = <<>>
       /\ submissions' = <<>>
       /\ sqlite_sequence' = NoSequence
       /\ settlements' = 0
       /\ Broadcast(<<[type |-> "GAME_RESET"]>>)
       /\ last' = Response("reset", 200, "", NULL)
       /\ UNCHANGED <<settings, inflight, clients, browser>>

----------------------------------------------------------------------------
(* Store failures.  No handler opens a transaction, so every statement that
   ran before the failing one is committed. *)

\* The first k rows of SELECT * FROM submissions WHERE round_id = ?
FirstSubs(roundId, k) ==
    {i \in SubsOfRound(roundId) :
        Cardinality({j \in SubsOfRound(roundId) : j <= i}) <= k}

\* The UPDATEs of submissions that the first k passes of the loop have run
ScoreFirst(roundId, a, k) ==
    [i \in DOMAIN submissions |->
        IF i \in FirstSubs(roundId, k) THEN ScoreSubmissions(roundId, a)[i]
        ELSE submissions[i]]

\* The UPDATEs of teams that the first k passes of the loop have run
RECURSIVE SettleFirst(_, _, _, _, _)
SettleFirst(tms, i, roundId, a, k) ==
    IF i > Len(submissions) THEN tms
    ELSE LET sub == submissions[i]
         IN  IF i \in FirstSubs(roundId, k) /\ sub.team_id \in DOMAIN tms
             THEN SettleFirst([tms EXCEPT ![sub.team_id].balance =
                                  Settle(@, sub.bid_amount,
                                         FinalScore(sub.predicted_value, a, sub.bid_amount))],
                              i + 1, roundId, a, k)
             ELSE SettleFirst(tms, i + 1, roundId, a, k)

\* POST /api/admin/rounds/reveal when the store throws after n of the
\* handler's writes: the UPDATE of the round is the first, then one UPDATE of
\* submissions and one of teams per row.  The exception leaves the handler
\* before broadcast and res.json; Express answers 500.
RevealFails(req, n) ==
    /\ AdminAuth(req)
    /\ n \in 0 .. 2 * Cardinality(SubsOfRound(req.roundId))
    /\ n >= 3 => settlements < MaxSettlements
    /\ rounds' = IF n >= 1 THEN RevealRound(req.roundId, req.actualValue) ELSE rounds
    /\ submissions' = ScoreFirst(req.roundId, req.actualValue, n \div 2)
    /\ teams' = SettleFirst(teams, 1, req.roundId, req.actualValue,
                            IF n >= 1 THEN (n - 1) \div 2 ELSE 0)
    /\ settlements' = IF n >= 3 THEN settlements + 1 ELSE settlements
    /\ NoBroadcast
    /\ last' = Response("reveal", 500, "Internal Server Error", NULL)
    /\ UNCHANGED <<sqlite_sequence, settings, inflight, clients, browser>>

\* POST /api/admin/reset when db.exec throws after n of its statements:
\* n = 0 before DELETE FROM submissions, n = 1 after it.  (A failure after
\* DELETE FROM rounds or DELETE FROM teams leaves sqlite_sequence as it
\* was, so later ids would not restart at 1; these two points are left out.
\* The rows of submissions go while their counter stays, which the guard on
\* the counter keeps bounded.)
ResetFails(req, n) ==
    /\ AdminAuth(req)
    /\ n \in 0 .. 1
    /\ n >= 1 => sqlite_sequence["submissions"] <= MaxSubs
    /\ submissions' = IF n >= 1 THEN <<>> ELSE submissions
    /\ NoBroadcast
    /\ last' = Response("reset", 500, "Database reset failed", NULL)
    /\ UNCHANGED <<teams, rounds, sqlite_sequence, settings, inflight, settlements, clients,
                   browser>>

----------------------------------------------------------------------------
(* The WebSocket channels and the browser app (src/unnamed/part_000) *)

\* What no channel step touches
server == <<teams, rounds, submissions, sqlite_sequence, settings, inflight, settlements, last>>

\* wss.on("connection"): clients.add(ws).  Nothing is sent to the new channel.
Connect(c) ==
    /\ clients[c] = "absent"
    /\ clients' = [clients EXCEPT ![c] = "open"]
    /\ inbox' = [inbox EXCEPT ![c] = <<>>]
    /\ events' = <<>>
    /\ UNCHANGED <<server, browser>>

\* The transport of an open channel dies; readyState is still OPEN
Break(c) ==
    /\ clients[c] = "open"
    /\ clients' = [clients EXCEPT ![c] = "broken"]
    /\ events' = <<>>
    /\ UNCHANGED <<server, inbox, browser>>

\* The channel starts to close: readyState leaves OPEN, the socket is still
\* in the set
CloseStart(c) ==
    /\ clients[c] \in {"open", "broken"}
    /\ clients' = [clients EXCEPT ![c] = "closing"]
    /\ events' = <<>>
    /\ UNCHANGED <<server, inbox, browser>>

\* ws.on("close"): clients.delete(ws).  What was not handled yet is lost.
CloseEvent(c) ==
    /\ clients[c] = "closing"
    /\ clients' = [clients EXCEPT ![c] = "absent"]
    /\ inbox' = [inbox EXCEPT ![c] = <<>>]
    /\ events' = <<>>
    /\ UNCHANGED <<server, browser>>

\* fetchSubmissions(roundId) as socket.onmessage and fetchCurrentRound reach
\* it: both are the functions of the render in which the useEffect with the
\* empty dependency list ran, so `adminPassword` is that render's state.
\* if (!adminPassword) return; otherwise the GET is sent.
FetchSubmissions(roundId) ==
    IF browser.handlerPassword = "" THEN browser.pulls ELSE browser.pulls \cup {roundId}

\* if (currentRoundRef.current?.id && isAdminAuthenticatedRef.current)
\*     fetchSubmissions(currentRoundRef.current.id)
PullIfOperator ==
    IF browser.currentRound # NULL /\ browser.isAdminAuthenticated
    THEN FetchSubmissions(browser.currentRound.id)
    ELSE browser.pulls

\* socket.onmessage of the browser app, as far as currentRound and the
\* submission list go: ROUND_STARTED sets currentRound to the round of the
\* message, GAME_RESET to null, ROUND_REVEALED calls fetchCurrentRound and,
\* like SUBMISSION_RECEIVED, fetchSubmissions for an operator with a round
OnMessage(data) ==
    IF data.type = "ROUND_STARTED"
    THEN [browser EXCEPT !.currentRound = data.round]
    ELSE IF data.type = "ROUND_REVEALED"
    THEN [browser EXCEPT !.fetching = @ + 1, !.pulls = PullIfOperator]
    ELSE IF data.type = "SUBMISSION_RECEIVED"
    THEN [browser EXCEPT !.pulls = PullIfOperator]
    ELSE IF data.type = "GAME_RESET"
    THEN [browser EXCEPT !.currentRound = NULL]
    ELSE browser

\* The peer of channel c handles its oldest message; the app of this model
\* is the peer of c1
Receive(c) ==
    /\ inbox[c] # <<>>
    /\ (c = "c1" /\ Head(inbox[c]).type = "ROUND_REVEALED") => browser.fetching < MaxInFlight
    /\ inbox' = [inbox EXCEPT ![c] = Tail(@)]
    /\ browser' = IF c = "c1" /\ browser.mounted THEN OnMessage(Head(inbox[c])) ELSE browser
    /\ events' = <<>>
    /\ UNCHANGED <<server, clients>>

\* The app mounts: it opens its WebSocket and calls fetchCurrentRound.  The
\* channel is taken to be connected from the mount on.
Mount ==
    /\ ~browser.mounted
    /\ clients["c1"] = "absent"
    /\ browser' = [browser EXCEPT !.mounted = TRUE, !.fetching = 1,
                                  !.handlerPassword = browser.adminPassword]
    /\ clients' = [clients EXCEPT !["c1"] = "open"]
    /\ inbox' = [inbox EXCEPT !["c1"] = <<>>]
    /\ events' = <<>>
    /\ UNCHANGED server

\* GET /api/rounds/current for a fetchCurrentRound of the app: the answer is
\* on its way back
FetchServed ==
    /\ browser.fetching > 0
    /\ browser' = [browser EXCEPT !.fetching = @ - 1, !.responses = @ \cup {CurrentRound}]
    /\ last' = Response("getCurrentRound", 200, "", CurrentRound)
    /\ NoBroadcast
    /\ UNCHANGED <<teams, rounds, submissions, sqlite_sequence, settings, inflight,
                   settlements, clients>>

\* fetchCurrentRound after its await: setCurrentRound(data), and
\* fetchSubmissions(data.id) for an operator
ResponseArrives ==
    /\ \E data \in browser.responses :
          browser' = [browser EXCEPT !.responses = @ \ {data}, !.currentRound = data,
                                     !.pulls = IF data # NULL /\ browser.isAdminAuthenticated
                                               THEN FetchSubmissions(data.id) ELSE @]
    /\ events' = <<>>
    /\ UNCHANGED <<server, clients, inbox>>

\* handleAdminLogin with the operator's password, and POST /api/admin/login
\* answering it: on 200 setIsAdminAuthenticated(true) and
\* setAdminPassword(adminPasswordInput); the socket.onmessage set up at the
\* mount is not replaced
AdminLogin(ok) ==
    /\ browser.mounted
    /\ ~browser.isAdminAuthenticated
    /\ browser' = IF ok
                  THEN [browser EXCEPT !.isAdminAuthenticated = TRUE,
                                       !.adminPassword = "admin-password"]
                  ELSE browser
    /\ last' = Response("login", IF ok THEN 200 ELSE 401,
                        IF ok THEN "" ELSE "Incorrect password", NULL)
    /\ NoBroadcast
    /\ UNCHANGED <<teams, rounds, submissions, sqlite_sequence, settings, inflight,
                   settlements, clients>>

----------------------------------------------------------------------------
(* Requests *)

SubmitReqs ==
    [teamId : TeamIds, roundId : RoundIds, predictedValue : Preds, bidAmount : Bids]

RevealReqs == [roundId : RoundIds, actualValue : Actuals, auth : BOOLEAN]

\* The game: join, startRound, submit, reveal, reset
Next ==
    \/ \E name \in Names : Join(name)
    \/ \E req \in [theme : Themes, auth : BOOLEAN] : StartRound(req)
    \/ \E req \in SubmitReqs : Submit(req)
    \/ \E req \in RevealReqs : Reveal(req)
    \/ \E req \in [auth : BOOLEAN] : Reset(req)

Spec == Init /\ [][Next]_vars

\* The game together with login, the settings and the read operations
FullReqs == [teamId : TeamIds, roundId : RoundIds, predictedValue : {100}, bidAmount : {2000, 3000}]

NextFull ==
    \/ \E name \in Names : Join(name)
    \/ \E req \in [theme : Themes, auth : BOOLEAN] : StartRound(req)
    \/ \E req \in FullReqs : Submit(req)
    \/ \E req \in RevealReqs : Reveal(req)
    \/ \E req \in [auth : BOOLEAN] : Reset(req)
    \/ \E ok \in BOOLEAN : Login(ok)
    \/ GetSettings
    \/ GetTeams
    \/ GetCurrentRound
    \/ \E req \in [roundId : RoundIds, auth : BOOLEAN] : GetSubmissions(req)
    \/ \E req \in [key : SettingKeys, value : SettingValues, auth : BOOLEAN] : UpdateSetting(req)

SpecFull == Init /\ [][NextFull]_vars

\* Overlapping submit requests: several have arrived before any handler runs
ConcReqs == [teamId : TeamIds, roundId : RoundIds, predictedValue : {100}, bidAmount : {2000}]

NextConc ==
    \/ \E name \in Names : Join(name)
    \/ \E req \in [theme : Themes, auth : BOOLEAN] : StartRound(req)
    \/ \E req \in ConcReqs : SubmitArrive(req)
    \/ \E req \in ConcReqs : SubmitInFlight(req)
    \/ \E req \in RevealReqs : Reveal(req)
    \/ \E req \in [auth : BOOLEAN] : Reset(req)

SpecConc == Init /\ [][NextConc]_vars

FaultReqs == [roundId : RoundIds, actualValue : {100}, auth : BOOLEAN]

\* The game with store failures in reveal and reset
NextFault ==
    \/ \E name \in Names : Join(name)
    \/ \E req \in [theme : Themes, auth : BOOLEAN] : StartRound(req)
    \/ \E req \in ConcReqs : Submit(req)
    \/ \E req \in FaultReqs : Reveal(req)
    \/ \E req \in [auth : BOOLEAN] : Reset(req)
    \/ \E req \in FaultReqs, n \in 0 .. 2 * MaxSubs : RevealFails(req, n)
    \/ \E req \in [auth : BOOLEAN], n \in 0 .. 1 : ResetFails(req, n)

SpecFault == Init /\ [][NextFault]_vars

CastSubmitReqs == [teamId : {1}, roundId : {1}, predictedValue : {100}, bidAmount : {2000}]
CastRevealReqs == [roundId : {1}, actualValue : {100}, auth : {TRUE}]

\* The handlers that broadcast, with a channel c1 that comes, breaks and goes
\* and a channel c2 that stays once it is connected
NextCast ==
    \/ Join("a")
    \/ \E req \in [theme : Themes, auth : {TRUE}] : StartRound(req)
    \/ \E req \in CastSubmitReqs : Submit(req)
    \/ \E req \in CastRevealReqs : Reveal(req)
    \/ \E req \in [auth : BOOLEAN] : Reset(req)
    \/ \E req \in [key : SettingKeys, value : {"T2"}, auth : {TRUE}] : UpdateSetting(req)
    \/ \E c \in Channels : Connect(c)
    \/ Break("c1")
    \/ CloseStart("c1")
    \/ CloseEvent("c1")
    \/ \E c \in Channels : Receive(c)

SpecCast == Init /\ [][NextCast]_vars

\* The rounds of a game and one browser app that stays connected
NextClient ==
    \/ \E req \in [theme : Themes, auth : {TRUE}] : StartRound(req)
    \/ \E req \in [roundId : RoundIds, actualValue : {100}, auth : {TRUE}] : Reveal(req)
    \/ \E req \in [auth : BOOLEAN] : Reset(req)
    \/ Mount
    \/ FetchServed
    \/ ResponseArrives
    \/ Receive("c1")

SpecClient == Init /\ [][NextClient]_vars

OperatorSubmitReqs == [teamId : {1}, roundId : RoundIds, predictedValue : {100}, bidAmount : {1000}]

\* A game of one team and the browser app of the operator
NextOperator ==
    \/ Join("a")
    \/ \E req \in [theme : Themes, auth : BOOLEAN] : StartRound(req)
    \/ \E req \in OperatorSubmitReqs : Submit(req)
    \/ \E req \in [roundId : RoundIds, actualValue : {100}, auth : {TRUE}] : Reveal(req)
    \/ Mount
    \/ \E ok \in BOOLEAN : AdminLogin(ok)
    \/ FetchServed
    \/ ResponseArrives
    \/ Receive("c1")

SpecOperator == Init /\ [][NextOperator]_vars

\* Submit requests with the ids of teams and rounds that exist, of some that
\* do not, and with roundId null; the prediction is not 0
RefSubmitReqs ==
    [teamId : TeamIds, roundId : RoundIds \cup {JsonNull}, predictedValue : {100},
     bidAmount : {1000}]

\* Reveal requests with a number and with null as actualValue
RefRevealReqs == [roundId : RoundIds, actualValue : {100, JsonNull}, auth : BOOLEAN]

\* The game with these requests
NextRef ==
    \/ \E name \in Names : Join(name)
    \/ \E req \in [theme : Themes, auth : {TRUE}] : StartRound(req)
    \/ \E req \in RefSubmitReqs : Submit(req)
    \/ \E req \in RefRevealReqs : Reveal(req)
    \/ \E req \in [auth : BOOLEAN] : Reset(req)

SpecRef == Init /\ [][NextRef]_vars

\* Predictions and actual values that reach every tier of the scoring, its
\* boundaries, actualValue = 0 and a negative actualValue
ScorePreds == {0, 102, 103, 105, 106, 110, 111, 125, 126}
ScoreActuals == {0 - 100, 0, 100}
ScoreSubmitReqs ==
    [teamId : {1}, roundId : RoundIds, predictedValue : ScorePreds, bidAmount : {1000}]
ScoreRevealReqs == [roundId : RoundIds, actualValue : ScoreActuals, auth : BOOLEAN]

\* The game of one team, with the inputs of the scoring
NextScore ==
    \/ Join("a")
    \/ \E req \in [theme : Themes, auth : BOOLEAN] : StartRound(req)
    \/ \E req \in ScoreSubmitReqs : Submit(req)
    \/ \E req \in ScoreRevealReqs : Reveal(req)
    \/ \E req \in [auth : BOOLEAN] : Reset(req)

SpecScore == Init /\ [][NextScore]_vars

----------------------------------------------------------------------------
(* Properties *)

ResetStep == \E req \in [auth : BOOLEAN] : Reset(req) /\ AdminAuth(req)

BalancesUnchanged ==
    \A t \in DOMAIN teams : t \in DOMAIN teams' /\ teams'[t].balance = teams[t].balance

\* C1: a reveal of a round that reveal has already revealed fails with a
\* conflict (400) and leaves every team's balance as it was, whatever
\* actualValue it passes.
C1_SecondRevealRejected ==
    [][\A req \in RevealReqs :
          (/\ last'.op = "reveal"
           /\ Reveal(req)
           /\ AdminAuth(req)
           /\ RoundExists(req.roundId)
           /\ rounds[req.roundId].status = "revealed"
           /\ rounds[req.roundId].actual_value # NULL)
          => (last'.status = 400 /\ BalancesUnchanged)]_vars

\* C2: at most one submission is stored for each (team, round) pair.
C2_OneSubmissionPerTeamRound ==
    \A i, j \in DOMAIN submissions :
        (/\ submissions[i].team_id = submissions[j].team_id
         /\ submissions[i].round_id = submissions[j].round_id) => i = j

\* A second submit for a stored (team, round) pair has just been refused
C2_Witness ==
    /\ Len(submissions) = 1
    /\ last.op = "submit"
    /\ last.status = 400
    /\ last.error = "Already submitted for this round"

\* Rows of (teamId, roundId) in the table after the step
ExistingAfter(teamId, roundId) ==
    {i \in DOMAIN submissions' :
        submissions'[i].team_id = teamId /\ submissions'[i].round_id = roundId}

\* C3: of two submit requests for the same (team, round) in flight together,
\* the handler that runs first (team and round exist, bid within the balance)
\* answers 200, stores the one row of the pair and leaves the other request
\* in flight; a handler that runs when the row exists answers 400 (the
\* conflict message unless the balance check fails first) and stores nothing.
C3_ConcurrentSubmitOneWins ==
    [][\A r1, r2 \in ConcReqs :
          (/\ last'.op = "submit"
           /\ r1.teamId = r2.teamId
           /\ r1.roundId = r2.roundId
           /\ BagIn(r1, inflight)
           /\ BagIn(r2, inflight)
           /\ (r1 = r2 => CopiesIn(r1, inflight) >= 2)
           /\ SubmitInFlight(r1))
          => /\ BagIn(r2, inflight')
             /\ Existing(r1.teamId, r1.roundId) # {}
                  => /\ last'.status = 400
                     /\ submissions' = submissions
                     /\ events' = <<>>
                     /\ ~InsufficientBalance(r1.teamId, r1.bidAmount)
                           => last'.error = "Already submitted for this round"
             /\ (/\ Existing(r1.teamId, r1.roundId) = {}
                 /\ ~InsufficientBalance(r1.teamId, r1.bidAmount)
                 /\ ~ForeignKeyFails(r1.teamId, r1.roundId))
                  => last'.status = 200
             /\ last'.status = 200
                  => /\ Existing(r1.teamId, r1.roundId) = {}
                     /\ Cardinality(ExistingAfter(r1.teamId, r1.roundId)) = 1
                     /\ Len(submissions') = Len(submissions) + 1
                     /\ events' = <<[type |-> "SUBMISSION_RECEIVED", teamId |-> r1.teamId]>>]_vars

\* Both requests have been answered: one row is stored, the last answer is the conflict
C3_Witness ==
    /\ inflight = EmptyBag
    /\ Len(submissions) = 1
    /\ last.op = "submit"
    /\ last.status = 400
    /\ last.error = "Already submitted for this round"
    /\ events = <<>>

\* C4: a submit against a round whose status is not open is rejected and
\* stores no submission.
C4_SubmitToClosedRoundRejected ==
    [][\A req \in SubmitReqs :
          (/\ last'.op = "submit"
           /\ Submit(req)
           /\ RoundExists(req.roundId)
           /\ rounds[req.roundId].status # "open")
          => (last'.status = 400 /\ submissions' = submissions)]_vars

\* C5: once a round is revealed, no step other than reset changes its
\* actual_value or the score, error_percent, predicted_value or bid_amount of
\* any of its submissions.
C5_RevealedRoundImmutable ==
    [][\A r \in DOMAIN rounds :
          (rounds[r].status = "revealed" /\ ~ResetStep)
          => /\ r \in DOMAIN rounds'
             /\ rounds'[r].actual_value = rounds[r].actual_value
             /\ \A i \in DOMAIN submissions :
                   submissions[i].round_id = r
                   => (i \in DOMAIN submissions' /\ submissions'[i] = submissions[i])]_vars

\* C6: a successful reveal of round R leaves every team that has a submission
\* in R with balance - bid_amount + (the score stored for that submission),
\* and every other team with its balance unchanged.
C6_RevealSettlesEachSubmission ==
    [][\A req \in RevealReqs :
          (last'.op = "reveal" /\ last'.status = 200 /\ Reveal(req) /\ AdminAuth(req))
          => \A t \in DOMAIN teams :
                /\ t \in DOMAIN teams'
                /\ IF Existing(t, req.roundId) = {}
                   THEN teams'[t].balance = teams[t].balance
                   ELSE \A i \in Existing(t, req.roundId) :
                           /\ i \in DOMAIN submissions'
                           /\ teams'[t].balance =
                                 RAdd(RSub(teams[t].balance, submissions[i].bid_amount),
                                      submissions'[i].score)]_vars

\* A reveal has settled one team's submission and left the other team alone
C6_Witness ==
    /\ last.op = "reveal"
    /\ last.status = 200
    /\ events # <<>>
    /\ \E t1, t2 \in DOMAIN teams :
          /\ Existing(t1, events[1].roundId) # {}
          /\ Existing(t2, events[1].roundId) = {}
          /\ teams[t1].balance # R(InitialBalance)
          /\ teams[t2].balance = R(InitialBalance)

\* C7: only a new team's creation (2000), a reveal and a reset write a
\* balance: every other step (submit, startRound, a repeated join, settings
\* update, login, the reads) leaves each existing team's balance unchanged.
C7_BalanceWrittenOnlyBySettlement ==
    [][last'.op \notin {"reveal", "reset"}
          => /\ BalancesUnchanged
             /\ \A t \in DOMAIN teams' \ DOMAIN teams :
                   teams'[t].balance = R(InitialBalance)]_vars

\* A join of an existing name has answered with a balance that settlement had changed
C7_Witness ==
    /\ last.op = "join"
    /\ last.body.balance # R(InitialBalance)
    /\ \E t \in DOMAIN teams : teams[t].balance = last.body.balance

\* C8: a submit whose bidAmount exceeds the team's balance answers 400
\* "Insufficient balance", stores nothing and emits no event; a stored
\* submission's bid_amount was <= the team's balance when it was accepted.
C8_InsufficientFundsRejected ==
    [][last'.op = "submit"
          => /\ \A req \in SubmitReqs :
                   (/\ TeamExists(req.teamId)
                    /\ RLt(teams[req.teamId].balance, R(req.bidAmount))
                    /\ Submit(req))
                   => /\ last'.status = 400
                      /\ last'.error = "Insufficient balance"
                      /\ submissions' = submissions
                      /\ events' = <<>>
             /\ Len(submissions') > Len(submissions)
                  => LET sub == submissions'[Len(submissions')]
                     IN  /\ TeamExists(sub.team_id)
                         /\ RLe(sub.bid_amount, teams[sub.team_id].balance)]_vars

\* Every team exists and a submit has just been refused for its balance
C8_Witness ==
    /\ Len(teams) = Cardinality(Names)
    /\ last.op = "submit"
    /\ last.status = 400
    /\ last.error = "Insufficient balance"
    /\ events = <<>>

\* C9: a submit whose bidAmount is zero or negative is refused and stores
\* nothing; every stored submission has bid_amount > 0.
C9_BidStrictlyPositive ==
    /\ [][\A req \in SubmitReqs :
             (last'.op = "submit" /\ req.bidAmount <= 0 /\ Submit(req))
             => (last'.status = 400 /\ submissions' = submissions)]_vars
    /\ [](\A i \in DOMAIN submissions : RLt(R(0), submissions[i].bid_amount))

\* C10: every team's balance is >= 0 in every reachable state.
C10_NoOverdraft == \A t \in DOMAIN teams : RLe(R(0), teams[t].balance)

\* C11: every round but the most recently created one is revealed; so at
\* most one round is open, and an open round is the current round.
C11_OnlyCurrentRoundOpen ==
    /\ \A r \in DOMAIN rounds : r < Len(rounds) => rounds[r].status = "revealed"
    /\ Cardinality({r \in DOMAIN rounds : rounds[r].status = "open"}) <= 1
    /\ \A r \in DOMAIN rounds :
          rounds[r].status = "open" => (CurrentRound # NULL /\ CurrentRound.id = r)

\* A second round is open and the first was revealed by startRound
C11_Witness ==
    /\ Len(rounds) = 2
    /\ rounds[1].status = "revealed"
    /\ rounds[1].actual_value = NULL
    /\ rounds[2].status = "open"
    /\ last.op = "startRound"

\* C12: a startRound run while a round is open sets that round to revealed,
\* leaves its actual_value absent, writes no submission (score 0 and
\* error_percent unset stay) and no team balance.
C12_StartRoundForcesWithoutSettling ==
    [][(last'.op = "startRound" /\ last'.status = 200)
          => /\ \A r \in DOMAIN rounds :
                   rounds[r].status = "open"
                   => /\ r \in DOMAIN rounds'
                      /\ rounds'[r].status = "revealed"
                      /\ rounds'[r].actual_value = NULL
                      /\ rounds'[r].theme = rounds[r].theme
             /\ submissions' = submissions
             /\ teams' = teams]_vars

\* A round with an unsettled submission has been revealed by startRound
C12_Witness ==
    /\ last.op = "startRound"
    /\ last.status = 200
    /\ Len(rounds) = 2
    /\ rounds[1].status = "revealed"
    /\ rounds[1].actual_value = NULL
    /\ \E i \in SubsOfRound(1) :
          /\ submissions[i].score = R(0)
          /\ submissions[i].error_percent = NULL
          /\ teams[submissions[i].team_id].balance = R(InitialBalance)

\* C13: the submissions of a round that startRound revealed keep score 0 and
\* an unset error_percent, and change no balance, in every step but a reset.
C13_ForcedRoundNeverSettled ==
    [][\A r \in DOMAIN rounds :
          (/\ rounds[r].status = "revealed"
           /\ rounds[r].actual_value = NULL
           /\ ~ResetStep)
          => /\ \A i \in SubsOfRound(r) :
                   /\ i \in DOMAIN submissions'
                   /\ submissions'[i].score = submissions[i].score
                   /\ submissions'[i].error_percent = submissions[i].error_percent
             /\ (SubsOfRound(r) # {} /\ last'.op = "reveal"
                   /\ \E req \in RevealReqs : req.roundId = r /\ Reveal(req))
                  => BalancesUnchanged]_vars

\* C14: a successful startRound(theme) appends exactly one round, open and
\* without actual_value, and currentRound() is then that round; the theme of
\* an open round is no obstacle.
C14_StartRoundCreatesCurrent ==
    [][(last'.op = "startRound" /\ last'.status = 200)
          => /\ Len(rounds') = Len(rounds) + 1
             /\ rounds'[Len(rounds')].status = "open"
             /\ rounds'[Len(rounds')].actual_value = NULL
             /\ CurrentRound' = [id |-> Len(rounds) + 1,
                                 theme |-> rounds'[Len(rounds')].theme,
                                 actual_value |-> NULL, status |-> "open"]
             /\ last'.body = [id |-> Len(rounds) + 1, theme |-> rounds'[Len(rounds')].theme]
             /\ events' = <<[type |-> "ROUND_STARTED",
                             round |-> [id |-> Len(rounds) + 1,
                                        theme |-> rounds'[Len(rounds')].theme,
                                        status |-> "open"]]>>]_vars

\* A round was started with the theme of the round that was open
C14_Witness ==
    /\ last.op = "startRound"
    /\ last.status = 200
    /\ Len(rounds) = 2
    /\ rounds[1].theme = rounds[2].theme
    /\ rounds[1].actual_value = NULL
    /\ CurrentRound.id = 2
    /\ CurrentRound.status = "open"

\* C15: a round's status is open or revealed, and a revealed round stays
\* revealed for as long as it exists (until a reset deletes it).
C15_OpenThenRevealed ==
    /\ [](\A r \in DOMAIN rounds : rounds[r].status \in {"open", "revealed"})
    /\ [][\A r \in DOMAIN rounds :
             (rounds[r].status = "revealed" /\ ~ResetStep)
             => (r \in DOMAIN rounds' /\ rounds'[r].status = "revealed")]_vars

\* A revealed round has been revealed once more and is still revealed
C15_Witness ==
    /\ last.op = "reveal"
    /\ last.status = 200
    /\ settlements = 2
    /\ Len(rounds) = 1
    /\ rounds[1].status = "revealed"
    /\ rounds[1].actual_value # NULL

\* C16: a reveal that fails at a store operation leaves the round's status
\* and actual_value, every submission's score and every team's balance as
\* they were before the call.
C16_FailedRevealInvisible ==
    [][(last'.op = "reveal" /\ last'.status = 500)
          => (rounds' = rounds /\ submissions' = submissions /\ teams' = teams)]_vars

\* C18: a reset that fails deletes no team, round or submission, answers
\* 500 and broadcasts no GAME_RESET.
C18_FailedResetIntact ==
    [][(last'.op = "reset" /\ last'.status = 500)
          => /\ teams' = teams
             /\ rounds' = rounds
             /\ submissions' = submissions
             /\ events' = <<>>]_vars

\* C17: after a successful reset there is no team, no round and no
\* submission, currentRound() is none, and every setting is as before.
C17_ResetClearsGameKeepsSettings ==
    [][(last'.op = "reset" /\ last'.status = 200)
          => /\ teams' = <<>>
             /\ rounds' = <<>>
             /\ submissions' = <<>>
             /\ CurrentRound' = NULL
             /\ settings' = settings]_vars

\* The game has been reset after a setting was changed
C17_Witness ==
    /\ last.op = "reset"
    /\ last.status = 200
    /\ settings["game_title"] = "T2"
    /\ teams = <<>> /\ rounds = <<>> /\ submissions = <<>>
    /\ events = <<[type |-> "GAME_RESET"]>>

\* What join, startRound, submit and reveal read of the store
Store == <<teams, rounds, submissions, sqlite_sequence>>

\* The store of a freshly initialised system
FreshStore == <<<<>>, <<>>, <<>>, NoSequence>>

\* C19: after a reset the store is that of a fresh system, ids included, so
\* the operations that follow answer and store what they would from the
\* initial state: the first join gets id 1 and balance 2000, the first
\* round id 1, a submit finds no team, a reveal finds nothing to settle.
C19_AfterResetAsFresh ==
    [][(last.op = "reset" /\ last.status = 200)
          => /\ Store = FreshStore
             /\ last'.op = "join"
                  => \E name \in Names :
                        /\ teams' = <<TeamRow(name)>>
                        /\ last'.body = [id |-> 1, name |-> name,
                                         balance |-> R(InitialBalance)]
             /\ (last'.op = "startRound" /\ last'.status = 200)
                  => \E theme \in Themes :
                        /\ rounds' = <<RoundRow(theme)>>
                        /\ last'.body = [id |-> 1, theme |-> theme]
             /\ last'.op = "submit"
                  => /\ last'.status = 400
                     /\ last'.error = "Insufficient balance"
                     /\ submissions' = <<>>
             /\ (last'.op = "reveal" /\ last'.status = 200)
                  => (teams' = <<>> /\ rounds' = <<>> /\ submissions' = <<>>)]_vars

\* A reset has run and left the store of a fresh system, the id counters included
C19_Witness ==
    /\ last.op = "reset"
    /\ last.status = 200
    /\ Store = FreshStore
    /\ settlements = 0

\* C20: a reset runs as one step between the steps of the other handlers:
\* whenever a step deletes a row, that step leaves teams, rounds and
\* submissions all empty, so a request handled after it, one that arrived
\* before it included, sees none of them or all of them cleared.
C20_ResetExclusive ==
    [][(\/ Len(teams') < Len(teams)
        \/ Len(rounds') < Len(rounds)
        \/ Len(submissions') < Len(submissions))
          => /\ last'.op = "reset"
             /\ teams' = <<>>
             /\ rounds' = <<>>
             /\ submissions' = <<>>
             /\ sqlite_sequence' = NoSequence
             /\ inflight' = inflight]_vars

\* The reset has run while a submit request was waiting for its handler
C20_Witness ==
    /\ last.op = "reset"
    /\ last.status = 200
    /\ inflight # EmptyBag
    /\ teams = <<>> /\ rounds = <<>> /\ submissions = <<>>

\* The actualValue last written to the round of submission i (an integer)
ActualOf(i) == rounds[submissions[i].round_id].actual_value[1]

\* The submissions that a reveal has scored
Scored == {i \in DOMAIN submissions : submissions[i].error_percent # NULL}

\* C21: every stored finalScore of a submission with a positive bid is >= 0,
\* and it is 0 whenever the stored errorPercent is above 25, for actual
\* values of either sign and 0.
C21_FinalScoreNonNegative ==
    \A i \in Scored :
        RLt(R(0), submissions[i].bid_amount)
        => /\ RLe(R(0), submissions[i].score)
           /\ RLt(R(25), submissions[i].error_percent) => submissions[i].score = R(0)

\* errorPercent as the specification defines it, with |a| as the divisor
RefErrorPercent(p, a) ==
    IF a = 0 THEN (IF p = 0 THEN R(0) ELSE R(100))
    ELSE RMul(RDiv(R(Abs(p - a)), R(Abs(a))), R(100))

\* C22: the error_percent stored for a submission is 0 for a = 0 and p = 0,
\* 100 for a = 0 and p # 0, and |p - a| / |a| * 100 otherwise; it is never
\* negative.
C22_ErrorPercentIsReference ==
    \A i \in Scored :
        /\ submissions[i].error_percent
             = RefErrorPercent(submissions[i].predicted_value, ActualOf(i))
        /\ RLe(R(0), submissions[i].error_percent)

\* bid * (1 / (1 + errorPercent)) * multiplier
Scaled(bid, ep, multiplier) == RMul(RMul(bid, RDiv(R(1), RAdd(R(1), ep))), multiplier)

\* C23: the stored score is the bid scaled by 1 / (1 + errorPercent) and by
\* the multiplier of the first tier that holds (<= 2: 3, <= 5: 2, <= 10: 1.5,
\* else 1) when errorPercent <= 25, and 0 above 25; the bounds 2, 5, 10 and
\* 25 are inclusive.
C23_InclusiveTiers ==
    \A i \in Scored :
        LET ep == submissions[i].error_percent
            bid == submissions[i].bid_amount
            score == submissions[i].score
        IN  /\ RLe(ep, R(2)) => score = Scaled(bid, ep, R(3))
            /\ (RLt(R(2), ep) /\ RLe(ep, R(5))) => score = Scaled(bid, ep, R(2))
            /\ (RLt(R(5), ep) /\ RLe(ep, R(10))) => score = Scaled(bid, ep, <<3, 2>>)
            /\ (RLt(R(10), ep) /\ RLe(ep, R(25))) => score = Scaled(bid, ep, R(1))
            /\ RLt(R(25), ep) => score = R(0)
            /\ ep = R(2) => score = bid
            /\ ep = R(25) => score = RDiv(bid, R(26))

\* Two submissions are scored on the bounds: errorPercent 2 with the
\* multiplier 3 and errorPercent 25 with a score above 0
C23_Witness ==
    /\ \E i \in Scored :
          /\ submissions[i].error_percent = R(2)
          /\ submissions[i].score = submissions[i].bid_amount
    /\ \E i \in Scored :
          /\ submissions[i].error_percent = R(25)
          /\ RLt(R(0), submissions[i].score)

\* The operations behind the adminAuth middleware
OperatorOps == {"updateSetting", "startRound", "reveal", "getSubmissions", "reset"}

\* C27: an operator operation called without the right credential answers
\* 401, writes nothing to the store and broadcasts no event.
C27_UnauthorizedChangesNothing ==
    [][/\ (last'.op \in OperatorOps /\ last'.status = 401)
            => /\ UNCHANGED <<teams, rounds, submissions, sqlite_sequence, settings>>
               /\ events' = <<>>
               /\ last'.error = "Unauthorized"
       /\ \A req \in [key : SettingKeys, value : SettingValues, auth : {FALSE}] :
             (last'.op = "updateSetting" /\ UpdateSetting(req)) => last'.status = 401
       /\ \A req \in [theme : Themes, auth : {FALSE}] :
             (last'.op = "startRound" /\ StartRound(req)) => last'.status = 401
       /\ \A req \in [roundId : RoundIds, actualValue : Actuals, auth : {FALSE}] :
             (last'.op = "reveal" /\ Reveal(req)) => last'.status = 401
       /\ \A req \in [roundId : RoundIds, auth : {FALSE}] :
             (last'.op = "getSubmissions" /\ GetSubmissions(req)) => last'.status = 401
       /\ \A req \in [auth : {FALSE}] :
             (last'.op = "reset" /\ Reset(req)) => last'.status = 401]_vars

\* A reset without the credential has been refused while a game is stored
C27_Witness ==
    /\ last.op = "reset"
    /\ last.status = 401
    /\ teams # <<>> /\ rounds # <<>> /\ submissions # <<>>
    /\ events = <<>>

\* C28: join with a new name stores one team with balance 2000; join with a
\* name that is taken answers the stored team with its current balance and
\* writes nothing; no two teams have the same name.
C28_JoinIdempotent ==
    /\ [](\A i, j \in DOMAIN teams : teams[i].name = teams[j].name => i = j)
    /\ [][last'.op = "join"
            => \E name \in Names :
                  /\ last'.status = 200
                  /\ last'.body.name = name
                  /\ TeamByName(name) = {}
                       => /\ teams' = Append(teams, [name |-> name,
                                                     balance |-> R(InitialBalance)])
                          /\ last'.body.id = Len(teams) + 1
                          /\ last'.body.balance = R(InitialBalance)
                  /\ TeamByName(name) # {}
                       => /\ teams' = teams
                          /\ sqlite_sequence' = sqlite_sequence
                          /\ \E id \in TeamByName(name) :
                                /\ last'.body.id = id
                                /\ last'.body.balance = teams[id].balance
                  /\ UNCHANGED <<rounds, submissions, settings>>]_vars

\* A team whose balance a settlement has changed has joined again
C28_Witness ==
    /\ last.op = "join"
    /\ last.body.balance # R(InitialBalance)
    /\ \E id \in DOMAIN teams :
          /\ last.body.id = id
          /\ teams[id].name = last.body.name
          /\ teams[id].balance = last.body.balance

\* The channels that broadcast sends to: in the set, with readyState OPEN
\* and a live transport
Connected == {c \in Channels : clients[c] = "open"}

\* C24: a publish delivers its event to every channel that is connected when
\* it runs, whatever the type of the event.
C24_PublishReachesEveryChannel ==
    [][events' # <<>>
          => \A c \in Connected :
                /\ inbox'[c] = inbox[c] \o events'
                /\ \A i \in DOMAIN events' :
                      \E j \in DOMAIN inbox'[c] : inbox'[c][j] = events'[i]]_vars

\* Both channels are connected and hold the event of a submission
C24_Witness ==
    /\ Connected = Channels
    /\ events # <<>>
    /\ events[1].type = "SUBMISSION_RECEIVED"
    /\ \A c \in Channels : inbox[c] = events

\* C25: a channel gets an event at most once and only from the publish of
\* that event; a channel that is not connected when an event is published
\* does not get it, and a channel that connects afterwards starts with
\* nothing.
C25_AtMostOnceNoReplay ==
    [][\A c \in Channels :
          /\ inbox'[c] \in {inbox[c], inbox[c] \o events', <<>>}
                \/ (inbox[c] # <<>> /\ inbox'[c] = Tail(inbox[c]))
          /\ (events' # <<>> /\ c \notin Connected) => inbox'[c] = inbox[c]
          /\ (clients[c] = "absent" /\ clients'[c] # "absent") => inbox'[c] = <<>>]_vars

\* An event has been published while c1 was no longer open: c2 holds it,
\* c1 holds nothing
C25_Witness ==
    /\ clients["c1"] = "closing"
    /\ clients["c2"] = "open"
    /\ events # <<>>
    /\ inbox["c2"] = events
    /\ inbox["c1"] = <<>>

Announced(e) ==
    /\ e.type = "ROUND_STARTED"
         => /\ CurrentRound' # NULL
            /\ CurrentRound'.id = e.round.id
            /\ CurrentRound'.theme = e.round.theme
            /\ CurrentRound'.status = e.round.status
            /\ Len(rounds') = Len(rounds) + 1
    /\ e.type = "SUBMISSION_RECEIVED"
         => /\ Len(submissions') = Len(submissions) + 1
            /\ submissions'[Len(submissions')].team_id = e.teamId
    /\ e.type = "ROUND_REVEALED"
         => \A r \in DOMAIN rounds' :
               r = e.roundId
               => /\ rounds'[r].status = "revealed"
                  /\ rounds'[r].actual_value = R(e.actualValue)
                  /\ \A i \in DOMAIN submissions' :
                        submissions'[i].round_id = r
                        => submissions'[i].error_percent # NULL
    /\ e.type = "GAME_RESET"
         => (teams' = <<>> /\ rounds' = <<>> /\ submissions' = <<>>)
    /\ e.type = "SETTINGS_UPDATED"
         => settings'[e.key] = e.value

\* C29: an event is published in the step that makes the change it
\* announces, after the writes, once, and only by an operation that answers
\* 200; every step that changes rounds, submissions or settings publishes
\* exactly one event.  A read that follows the receipt of the event is a
\* later step, so it reads that change or a newer state.
C29_EventAfterCommit ==
    [][/\ events' # <<>>
            => /\ Len(events') = 1
               /\ last'.status = 200
               /\ Announced(events'[1])
       /\ (rounds' # rounds \/ submissions' # submissions \/ settings' # settings)
            => Len(events') = 1]_vars

\* c2 holds the event of a reveal, and the round and its submission are
\* settled in the store
C29_Witness ==
    /\ clients["c2"] = "open"
    /\ events # <<>>
    /\ events[1].type = "ROUND_REVEALED"
    /\ inbox["c2"] = events
    /\ rounds # <<>>
    /\ rounds[1].status = "revealed"
    /\ rounds[1].actual_value = R(100)
    /\ \E i \in SubsOfRound(1) : submissions[i].error_percent # NULL

\* Nothing is on its way to the app: no message, no request, no response
Quiescent ==
    /\ browser.mounted
    /\ clients["c1"] = "open"
    /\ inbox["c1"] = <<>>
    /\ browser.fetching = 0
    /\ browser.responses = {}

\* C30: when every message and every read response on its way to a
\* connected app has arrived, the app's currentRound has the id and the
\* status of the server's current round (or both are none).
C30_ClientRoundConverges ==
    Quiescent
    => IF CurrentRound = NULL THEN browser.currentRound = NULL
       ELSE /\ browser.currentRound # NULL
            /\ browser.currentRound.id = CurrentRound.id
            /\ browser.currentRound.status = CurrentRound.status

\* The app handles SUBMISSION_RECEIVED or ROUND_REVEALED while it is logged
\* in as operator and holds a round
OperatorNotified ==
    /\ browser.mounted
    /\ browser.isAdminAuthenticated
    /\ browser.currentRound # NULL
    /\ inbox["c1"] # <<>>
    /\ Head(inbox["c1"]).type \in {"SUBMISSION_RECEIVED", "ROUND_REVEALED"}
    /\ Receive("c1")

\* C31: when SUBMISSION_RECEIVED or ROUND_REVEALED reaches an app that is
\* logged in as operator and holds a current round, the app sends
\* GET /api/admin/submissions/:roundId for that round with its password.
C31_OperatorRePullsSubmissions ==
    [][OperatorNotified => browser.currentRound.id \in browser'.pulls]_vars

\* The channel is connected before and after the step
StaysConnected(c) == c \in Connected /\ clients'[c] = "open"

\* C32: a channel that stays connected gets the events in the order of the
\* commits: the event of a step that commits a change goes behind every
\* event that is still on its way to the channel, and what the peer
\* handles next is always the oldest event on its way, so no event of a
\* later operation is handled before an event of an earlier one.
C32_EventsInCommitOrder ==
    [][\A c \in Channels :
          StaysConnected(c)
          => \/ events' # <<>> /\ inbox'[c] = inbox[c] \o events'
             \/ events' = <<>> /\ inbox'[c] = inbox[c]
             \/ events' = <<>> /\ inbox[c] # <<>> /\ inbox'[c] = Tail(inbox[c])]_vars

\* Round 1 was started and then revealed while channel c2 handled nothing:
\* both events are on their way to it, the older one first
C32_Witness ==
    /\ "c2" \in Connected
    /\ Len(inbox["c2"]) = 2
    /\ inbox["c2"][1].type = "ROUND_STARTED"
    /\ inbox["c2"][2].type = "ROUND_REVEALED"
    /\ events = <<inbox["c2"][2]>>
    /\ rounds # <<>>
    /\ rounds[1].status = "revealed"

\* C33: every stored submission references a team that exists and a round
\* that exists.
C33_ReferentialIntegrity ==
    \A i \in DOMAIN submissions :
        /\ TeamExists(submissions[i].team_id)
        /\ RoundExists(submissions[i].round_id)

\* C34: a submission whose error_percent is set belongs to a round that
\* exists, whose status is revealed and whose actual_value is set; no
\* submission of an open round is settled.
C34_SettledImpliesRevealed ==
    \A i \in DOMAIN submissions :
        submissions[i].error_percent # NULL
        => /\ RoundExists(submissions[i].round_id)
           /\ rounds[submissions[i].round_id].status = "revealed"
           /\ rounds[submissions[i].round_id].actual_value # NULL

====
